---- MODULE Spec2Model ----
(***************************************************************************)
(* A model of the anagram package: anagram/anagram.py (load_words_file,    *)
(* get_permutations, sort_word, find_anagrams) and the driver              *)
(* scripts/find_anagrams.py (main).                                        *)
(*                                                                         *)
(* Characters are codepoints (integers); a Python str is a sequence of     *)
(* codepoints.  Python values are tagged records, so that None, an int and *)
(* a str are told apart the way the code tells them apart.                 *)
(*                                                                         *)
(* A generator function runs none of its body when it is called; each      *)
(* next() of the consumer runs the body up to the next yield, to the end   *)
(* or to an exception.  A generator is a record with a state:              *)
(*   "nocall"     the function has not been called yet                     *)
(*   "created"    called, body not started                                 *)
(*   "suspended"  stopped at a yield                                       *)
(*   "done"       body ran to its end (StopIteration)                      *)
(*   "raised"     body ended with an exception                             *)
(*   "closed"     close()d by the consumer, or finalized when abandoned    *)
(***************************************************************************)
EXTENDS Integers, Sequences, FiniteSets

\* ------------------------------------------------------------- bounds
\* Longest word given to find_anagrams (target and candidates).
MaxWordLen == 2
\* Longest candidate list given to find_anagrams.
MaxCands == 2
\* Longest file content (in characters) given to load_words_file.
MaxFileLen == 4
\* Longest word given to sort_word and get_permutations on their own.
MaxPureLen == 3

\* ------------------------------------------------------------- values
\* 'a', 'b': the letters of the words of the matcher.
Letters == {97, 98}
\* 'a', 'b', 'c': the letters of the words of the pure functions.
PureLetters == {97, 98, 99}
\* '\n', ' ', 'a': the characters of a words file.
FileChars == {10, 32, 97}
\* The characters str.rstrip() removes: \t \n \v \f \r and space.
Whitespace == {9, 10, 11, 12, 13, 32}

None == [tag |-> "None", val |-> <<>>]
IsNone(v) == v.tag = "None"
PyStr(s) == [tag |-> "str", val |-> s]
PyInt(n) == [tag |-> "int", val |-> <<n>>]

\* All sequences over S of length at most n.
SeqsUpTo(S, n) == UNION {[1..k -> S] : k \in 0..n}

\* What a call does: return a value, or raise an exception.
Return(v) == [kind |-> "return", value |-> v, exc |-> "none"]
Raise(e) == [kind |-> "raise", value |-> None, exc |-> e]
\* A call that has not been made.
Pending == [kind |-> "pending", value |-> None, exc |-> "none"]

\* ------------------------------------------------------------- sort_word
\* sorted(): the element x put into the ascending sequence s, after the
\* elements equal to it.
RECURSIVE Insert(_, _)
Insert(s, x) ==
  IF s = <<>> THEN <<x>>
  ELSE IF x < Head(s) THEN <<x>> \o s
  ELSE <<Head(s)>> \o Insert(Tail(s), x)

\* A sort that drops a character already present (a bug: set-like sort).
RECURSIVE SortedDropsRepeats(_)
SortedDropsRepeats(s) ==
  IF s = <<>> THEN <<>>
  ELSE LET r == SortedDropsRepeats(SubSeq(s, 1, Len(s) - 1))
           x == s[Len(s)]
       IN IF \E i \in 1..Len(r) : r[i] = x THEN r ELSE Insert(r, x)

\* sorted(word): the characters of s in ascending codepoint order.
RECURSIVE Sorted(_)
Sorted(s) ==
  IF s = <<>> THEN <<>>
  ELSE Insert(Sorted(SubSeq(s, 1, Len(s) - 1)), s[Len(s)])

\* sort_word without the isinstance check: any non-None value is sorted.
sort_word_unchecked(w) ==
  IF IsNone(w) THEN Return(None)
  ELSE Return(PyStr(Sorted(w.val)))

\* sort_word(word)
sort_word(w) ==
  IF IsNone(w) THEN Return(None)
  ELSE IF w.tag # "str" THEN Raise("TypeError")
  ELSE Return(PyStr(Sorted(w.val)))

\* ------------------------------------------------------------- get_permutations
\* itertools.permutations over n positions: every ordering of 1..n.
permutations(n) ==
  {p \in [1..n -> 1..n] : \A i, j \in 1..n : p[i] = p[j] => i = j}

\* permutations over the distinct characters only (a bug: set(word)).
get_permutations_of_set(w) ==
  IF IsNone(w) THEN Return(None)
  ELSE IF w.tag # "str" THEN Raise("TypeError")
  ELSE LET cs == {w.val[i] : i \in 1..Len(w.val)}
           n == Cardinality(cs)
       IN Return([tag |-> "set",
                  val |-> {s \in [1..n -> cs] :
                             \A i, j \in 1..n : s[i] = s[j] => i = j}])

\* get_permutations(word): the set of ''.join(p) for p in permutations(word).
\* permutations() of a value that is not iterable (an int) raises TypeError.
get_permutations(w) ==
  IF IsNone(w) THEN Return(None)
  ELSE IF w.tag # "str" THEN Raise("TypeError")
  ELSE LET n == Len(w.val)
       IN Return([tag |-> "set",
                  val |-> {[i \in 1..n |-> w.val[p[i]]] : p \in permutations(n)}])

\* ------------------------------------------------------------- load_words_file
\* A words file: whether open() finds it, its characters, and the number of
\* the line whose read fails with an IOError (0: every read succeeds).
NewlineAt(c) == {i \in 1..Len(c) : c[i] = 10}

\* `for line in f`: the content cut after each '\n'; a last line without a
\* '\n' is a line too.  Each line keeps its terminator.
RECURSIVE SplitLines(_)
SplitLines(c) ==
  IF c = <<>> THEN <<>>
  ELSE LET nl == NewlineAt(c)
           k == IF nl = {} THEN Len(c)
                ELSE CHOOSE i \in nl : \A j \in nl : i <= j
       IN <<SubSeq(c, 1, k)>> \o SplitLines(SubSeq(c, k + 1, Len(c)))

\* line.strip(): whitespace removed at both ends (a bug for this loader).
RECURSIVE strip(_)
strip(s) ==
  IF s = <<>> THEN s
  ELSE IF s[Len(s)] \in Whitespace THEN strip(SubSeq(s, 1, Len(s) - 1))
  ELSE IF s[1] \in Whitespace THEN strip(Tail(s))
  ELSE s

\* line.rstrip(): the trailing whitespace removed.
RECURSIVE rstrip(_)
rstrip(s) ==
  IF s = <<>> THEN s
  ELSE IF s[Len(s)] \in Whitespace THEN rstrip(SubSeq(s, 1, Len(s) - 1))
  ELSE s

\* A handle closed only when the loop runs to its end (a bug: open() and a
\* trailing f.close() in place of the with statement).
ExitOnlyAtEnd(how) == IF how = "end" THEN "closed" ELSE "open"

\* Leaving the `with open(filepath) as f` block, however it is left ("end":
\* the loop ended, "error": an exception, "close": GeneratorExit at the
\* yield): the handle is closed.
ExitWith(how) == "closed"

\* A call of load_words_file that opens the file at once (a bug: a plain
\* function building a list): a missing file fails the call.
OpenAtCall(g) ==
  IF g.file.exists THEN [g EXCEPT !.state = "created"]
  ELSE [g EXCEPT !.state = "raised", !.exc = "IOError"]

\* load_words_file(filepath): the call makes the generator and runs nothing.
load_words_file(g) == [g EXCEPT !.state = "created"]

\* The generator object: its state, the handle ("unopened", "open",
\* "closed"), the number of lines read and the exception it ended with.
NewLoader(file) ==
  [tag |-> "generator", state |-> "nocall", handle |-> "unopened",
   pos |-> 0, exc |-> "none", file |-> file]

\* A loader that reads the following line before it yields (a bug:
\* read-ahead).
LoaderResumeReadAhead(g) ==
  IF g.state \notin {"created", "suspended"}
  THEN [gen |-> g, res |-> "stop", value |-> None, exc |-> "none"]
  ELSE IF g.state = "created" /\ ~g.file.exists
  THEN [gen |-> [g EXCEPT !.state = "raised", !.exc = "IOError"],
        res |-> "raise", value |-> None, exc |-> "IOError"]
  ELSE LET lines == SplitLines(g.file.content)
       IN IF g.pos >= Len(lines)
          THEN [gen |-> [g EXCEPT !.state = "done", !.handle = ExitWith("end")],
                res |-> "stop", value |-> None, exc |-> "none"]
          ELSE IF g.file.badRead = g.pos + 1
          THEN [gen |-> [g EXCEPT !.state = "raised", !.exc = "IOError",
                                  !.handle = ExitWith("error")],
                res |-> "raise", value |-> None, exc |-> "IOError"]
          ELSE [gen |-> [g EXCEPT !.state = "suspended", !.handle = "open",
                                  !.pos = IF g.pos + 2 <= Len(lines)
                                          THEN g.pos + 2 ELSE g.pos + 1],
                res |-> "yield", value |-> PyStr(rstrip(lines[g.pos + 1])),
                exc |-> "none"]

\* next() on the generator of load_words_file: the body from where it stands
\* to its next yield.  The first next() opens the file (IOError when it
\* cannot be opened); each next() reads one line and yields it rstrip()ped;
\* with no line left the with block is left and the generator ends.  next()
\* on a generator that ended raises StopIteration.
LoaderResume(g) ==
  IF g.state \notin {"created", "suspended"}
  THEN [gen |-> g, res |-> "stop", value |-> None, exc |-> "none"]
  ELSE IF g.state = "created" /\ ~g.file.exists
  THEN [gen |-> [g EXCEPT !.state = "raised", !.exc = "IOError"],
        res |-> "raise", value |-> None, exc |-> "IOError"]
  ELSE LET lines == SplitLines(g.file.content)
       IN IF g.pos = Len(lines)
          THEN [gen |-> [g EXCEPT !.state = "done", !.handle = ExitWith("end")],
                res |-> "stop", value |-> None, exc |-> "none"]
          ELSE IF g.file.badRead = g.pos + 1
          THEN [gen |-> [g EXCEPT !.state = "raised", !.exc = "IOError",
                                  !.handle = ExitWith("error")],
                res |-> "raise", value |-> None, exc |-> "IOError"]
          ELSE [gen |-> [g EXCEPT !.state = "suspended", !.handle = "open",
                                  !.pos = g.pos + 1],
                res |-> "yield", value |-> PyStr(rstrip(lines[g.pos + 1])),
                exc |-> "none"]

\* close() on the generator (or its finalization when the consumer drops
\* it): a generator that never started just ends; one suspended at the
\* yield gets GeneratorExit there, which leaves the with block.
LoaderClose(g) ==
  IF g.state = "created" THEN [g EXCEPT !.state = "closed"]
  ELSE IF g.state = "suspended"
  THEN [g EXCEPT !.state = "closed", !.handle = ExitWith("close")]
  ELSE g

\* ------------------------------------------------------------- find_anagrams
\* A list of candidates, as the tests pass it.
PyList(items) == [tag |-> "list", val |-> items]

\* One event of a run, in the order the code executes: "next" (the consumer
\* asks for an element), "sort_base" (sort_word on the target), "read"
\* (candidate i taken from valid_words), "sort" (sort_word on candidate i),
\* "yield" (candidate i handed to the consumer), "stop" and "raise" (the
\* request ends without an element).
Event(e, i) == [ev |-> e, i |-> i]

\* The next element of valid_words for a loop that has taken pos elements:
\* a list is indexed, a generator is resumed.
IterNext(vw, pos) ==
  IF vw.tag = "list"
  THEN IF pos < Len(vw.val)
       THEN [vw |-> vw, res |-> "yield", value |-> vw.val[pos + 1], exc |-> "none"]
       ELSE [vw |-> vw, res |-> "stop", value |-> None, exc |-> "none"]
  ELSE LET r == LoaderResume(vw)
       IN [vw |-> r.gen, res |-> r.res, value |-> r.value, exc |-> r.exc]

\* `if w`: None and the empty str are false.
Truthy(w) == ~IsNone(w) /\ Len(w.val) > 0

\* A filter without the length test (a bug: every non-empty word is sorted).
KeepAnyLength(w, word) == Truthy(w)

\* The filter of filtered_words: `if w and len(w) == len(word)`.
Keep(w, word) == Truthy(w) /\ Len(w.val) = Len(word.val)

\* The frame of the find_anagrams generator: its state, sorted_base, the
\* number of candidates taken from valid_words, the exception it ended with.
NewMatcher ==
  [state |-> "nocall", sorted_base |-> None, pos |-> 0, exc |-> "none"]

\* find_anagrams(word, valid_words) validating its arguments in the call
\* (a plain function returning an inner generator), not in the body.
CallValidating(a, word, vw) ==
  IF IsNone(word) \/ IsNone(vw)
  THEN [a EXCEPT !.state = "raised", !.exc = "ValueError"]
  ELSE [a EXCEPT !.state = "created"]

\* find_anagrams(word, valid_words): the function has a yield, so the call
\* makes the generator and runs none of the body, the argument check
\* included.
CallMatcher(a, word, vw) == [a EXCEPT !.state = "created"]

\* `for w in filtered_words: if sort_word(w) == sorted_base: yield w`, from
\* where the generator stands to its next yield or its end.  filtered_words
\* is a generator expression: it takes one candidate at a time.
RECURSIVE MatchLoop(_, _, _, _)
MatchLoop(word, vw, a, log) ==
  LET r == IterNext(vw, a.pos)
      i == a.pos + 1
  IN IF r.res = "stop"
     THEN [anagrams |-> [a EXCEPT !.state = "done"], vw |-> r.vw,
           log |-> Append(log, Event("stop", a.pos)), res |-> "stop",
           value |-> None]
     ELSE IF r.res = "raise"
     THEN [anagrams |-> [a EXCEPT !.state = "raised", !.exc = r.exc],
           vw |-> r.vw, log |-> Append(log, Event("raise", i)),
           res |-> "raise", value |-> None]
     ELSE LET w == r.value
              a1 == [a EXCEPT !.pos = i]
              log1 == Append(log, Event("read", i))
          IN IF ~Keep(w, word) THEN MatchLoop(word, r.vw, a1, log1)
             ELSE LET log2 == Append(log1, Event("sort", i))
                  IN IF sort_word(w).value = a.sorted_base
                     THEN [anagrams |-> [a1 EXCEPT !.state = "suspended"],
                           vw |-> r.vw, log |-> Append(log2, Event("yield", i)),
                           res |-> "yield", value |-> w]
                     ELSE MatchLoop(word, r.vw, a1, log2)

\* next() on the generator of find_anagrams.  The first next() runs the
\* argument check (ValueError), sorts the target once, and enters the loop.
MatcherResume(word, vw, a, log) ==
  LET log0 == Append(log, Event("next", a.pos))
  IN IF a.state \notin {"created", "suspended"}
     THEN [anagrams |-> a, vw |-> vw, log |-> Append(log0, Event("stop", a.pos)),
           res |-> "stop", value |-> None]
     ELSE IF a.state = "suspended" THEN MatchLoop(word, vw, a, log0)
     ELSE IF IsNone(word) \/ IsNone(vw)
     THEN [anagrams |-> [a EXCEPT !.state = "raised", !.exc = "ValueError"],
           vw |-> vw, log |-> Append(log0, Event("raise", 0)),
           res |-> "raise", value |-> None]
     ELSE MatchLoop(word, vw, [a EXCEPT !.sorted_base = sort_word(word).value],
                    Append(log0, Event("sort_base", 0)))

\* close() on the generator of find_anagrams (or its finalization): the
\* body stops where it stands; valid_words is left as it is.
MatcherClose(a) ==
  IF a.state \in {"created", "suspended"} THEN [a EXCEPT !.state = "closed"]
  ELSE a

\* ------------------------------------------------------------- state
VARIABLES
  word,         \* find_anagrams: the target argument
  valid_words,  \* find_anagrams: the candidates argument; alone, the
                \* generator of load_words_file
  anagrams,     \* the generator of find_anagrams
  out,          \* the elements the consumer has received, in order
  log,          \* the events of the run, in order
  x, y,         \* the arguments of the pure functions
  sx, sy,       \* sort_word(x), sort_word(y)
  ssx,          \* sort_word(sort_word(x))
  px            \* get_permutations(x)

vars == <<word, valid_words, anagrams, out, log, x, y, sx, sy, ssx, px>>
genVars == <<word, valid_words, anagrams, out, log>>
pureVars == <<x, y, sx, sy, ssx, px>>

\* The inputs.
Words == {PyStr(s) : s \in SeqsUpTo(Letters, MaxWordLen)}
CandidateLists ==
  {PyList(l) : l \in SeqsUpTo(Words \cup {None}, MaxCands)}
Files ==
  {[exists |-> FALSE, content |-> <<>>, badRead |-> 0]} \cup
  UNION {{[exists |-> TRUE, content |-> c, badRead |-> b] :
            b \in 0..Len(SplitLines(c))} :
         c \in SeqsUpTo(FileChars, MaxFileLen)}
PureValues ==
  {None, PyInt(1234)} \cup {PyStr(s) : s \in SeqsUpTo(PureLetters, MaxPureLen)}

GenIdle ==
  /\ word = None /\ valid_words = None /\ anagrams = NewMatcher
  /\ out = <<>> /\ log = <<>>
PureIdle ==
  /\ x = None /\ y = None
  /\ sx = Pending /\ sy = Pending /\ ssx = Pending /\ px = Pending

\* ------------------------------------------------------------- the matcher
\* The arguments of a call of find_anagrams: from a test (a list, or None)
\* or from main, which passes load_words_file(filepath).
Init ==
  /\ word \in Words \cup {None}
  /\ valid_words \in {None} \cup CandidateLists
                     \cup {load_words_file(NewLoader(f)) : f \in Files}
  /\ anagrams = NewMatcher
  /\ out = <<>> /\ log = <<>>
  /\ PureIdle

\* anagrams = find_anagrams(word, valid_words)
Call ==
  /\ anagrams.state = "nocall"
  /\ anagrams' = CallMatcher(anagrams, word, valid_words)
  /\ UNCHANGED <<word, valid_words, out, log, pureVars>>

\* next(anagrams): by list(), by the for loop of main.
Consume ==
  /\ anagrams.state \in {"created", "suspended"}
  /\ LET r == MatcherResume(word, valid_words, anagrams, log)
     IN /\ anagrams' = r.anagrams
        /\ valid_words' = r.vw
        /\ log' = r.log
        /\ out' = IF r.res = "yield" THEN Append(out, r.value) ELSE out
  /\ UNCHANGED <<word, pureVars>>

\* anagrams.close(), or the consumer dropping the generator.
Close ==
  /\ anagrams.state \in {"created", "suspended"}
  /\ anagrams' = MatcherClose(anagrams)
  /\ UNCHANGED <<word, valid_words, out, log, pureVars>>

Next == Call \/ Consume \/ Close

Spec == Init /\ [][Next]_vars

\* ------------------------------------------------------------- the loader alone
InitLoad ==
  /\ valid_words \in {NewLoader(f) : f \in Files}
  /\ word = None /\ anagrams = NewMatcher
  /\ out = <<>> /\ log = <<>>
  /\ PureIdle

\* valid_words = load_words_file(filepath)
LoadCall ==
  /\ valid_words.state = "nocall"
  /\ valid_words' = load_words_file(valid_words)
  /\ UNCHANGED <<word, anagrams, out, log, pureVars>>

\* next(valid_words)
LoadNext ==
  /\ valid_words.state \in {"created", "suspended"}
  /\ LET r == LoaderResume(valid_words)
     IN /\ valid_words' = r.gen
        /\ out' = IF r.res = "yield" THEN Append(out, r.value) ELSE out
        /\ log' = log \o <<Event("next", valid_words.pos),
                           Event(r.res, r.gen.pos)>>
  /\ UNCHANGED <<word, anagrams, pureVars>>

\* valid_words.close(), or the consumer dropping the generator.
LoadClose ==
  /\ valid_words.state \in {"created", "suspended"}
  /\ valid_words' = LoaderClose(valid_words)
  /\ UNCHANGED <<word, anagrams, out, log, pureVars>>

NextLoad == LoadCall \/ LoadNext \/ LoadClose

SpecLoad == InitLoad /\ [][NextLoad]_vars

\* ------------------------------------------------------------- the pure functions
InitPure ==
  /\ x \in PureValues /\ y \in PureValues
  /\ sx = Pending /\ sy = Pending /\ ssx = Pending /\ px = Pending
  /\ GenIdle

SortX == /\ sx = Pending /\ sx' = sort_word(x)
         /\ UNCHANGED <<x, y, sy, ssx, px, genVars>>

SortY == /\ sy = Pending /\ sy' = sort_word(y)
         /\ UNCHANGED <<x, y, sx, ssx, px, genVars>>

\* sort_word on what sort_word(x) returned.
SortAgain == /\ sx.kind = "return" /\ ssx = Pending
             /\ ssx' = sort_word(sx.value)
             /\ UNCHANGED <<x, y, sx, sy, px, genVars>>

PermX == /\ px.kind = "pending" /\ px' = get_permutations(x)
         /\ UNCHANGED <<x, y, sx, sy, ssx, genVars>>

NextPure == SortX \/ SortY \/ SortAgain \/ PermX

SpecPure == InitPure /\ [][NextPure]_vars

\* ------------------------------------------------------------- properties
\* The vocabulary of the properties, defined without the code's operators.
Count(s, c) == Cardinality({i \in 1..Len(s) : s[i] = c})
Chars(s) == {s[i] : i \in 1..Len(s)}
SameMultiset(s, t) == \A c \in Chars(s) \cup Chars(t) : Count(s, c) = Count(t, c)
Ascending(s) == \A i \in 1..Len(s) - 1 : s[i] <= s[i + 1]
RECURSIVE Factorial(_)
Factorial(n) == IF n = 0 THEN 1 ELSE n * Factorial(n - 1)
RECURSIVE Product(_, _)
Product(S, f) ==
  IF S = {} THEN 1
  ELSE LET c == CHOOSE d \in S : TRUE IN f[c] * Product(S \ {c}, f)
\* The events of the log named e, as positions in the log.
EventsOf(e) == {j \in 1..Len(log) : log[j].ev = e}
\* The candidates valid_words holds, in order: the elements of a list, the
\* trimmed lines of a loader's file.
Candidates ==
  IF valid_words.tag = "list" THEN valid_words.val
  ELSE IF valid_words.tag = "generator"
  THEN [i \in 1..Len(SplitLines(valid_words.file.content)) |->
          PyStr(rstrip(SplitLines(valid_words.file.content)[i]))]
  ELSE <<>>
\* w is an anagram of the target by the words alone: present, and the same
\* characters the same number of times (so the same length).
IsAnagramOf(w, t) == ~IsNone(w) /\ SameMultiset(w.val, t.val)

\* ---- C1
\* The candidates the claim says are yielded: those present, as long as the
\* target and with its multiset of characters, in order, repeats kept.
ExpectedAnagrams(t, cands) ==
  LET Matches(w) == ~IsNone(w) /\ Len(w.val) = Len(t.val) /\ IsAnagramOf(w, t)
  IN SelectSeq(cands, Matches)

\* C1: for every present target (the empty word included) and every finite
\* candidate list, a full consumption of find_anagrams yields exactly the
\* candidates that are present, as long as the target and with the target's
\* multiset of characters, in their order, once per occurrence.
C1_YieldsExactlyTheAnagrams ==
  (anagrams.state = "done" /\ ~IsNone(word) /\ valid_words.tag = "list")
    => out = ExpectedAnagrams(word, valid_words.val)

\* The same statement for the targets that are not empty: the part of C1
\* the code does satisfy.
C1_NonEmptyTarget ==
  (anagrams.state = "done" /\ ~IsNone(word) /\ valid_words.tag = "list"
   /\ word.val # <<>>)
    => out = ExpectedAnagrams(word, valid_words.val)

\* ---- C2
NullArgument == IsNone(word) \/ IsNone(valid_words)

C3_HandleReleased ==
  /\ valid_words.state \in {"done", "raised", "closed"}
       => valid_words.handle # "open"
  /\ valid_words.handle = "open"
       => (valid_words.state = "suspended" /\ EventsOf("next") # {})
  /\ valid_words.state \in {"nocall", "created"}
       => valid_words.handle = "unopened"
  /\ (valid_words.state = "closed" /\ EventsOf("next") = {})
       => valid_words.handle = "unopened"

\* The consumer took one element and closed the generator with lines left.
C3_Witness ==
  /\ valid_words.state = "closed" /\ valid_words.handle = "closed"
  /\ Len(out) = 1
  /\ valid_words.pos < Len(SplitLines(valid_words.file.content))

\* ---- C4
RECURSIVE Concat(_)
Concat(ls) == IF ls = <<>> THEN <<>> ELSE Head(ls) \o Concat(Tail(ls))
\* The lines of a content c, by what a line is: the pieces are not empty,
\* put together they are c, a '\n' is only ever the last character of a
\* piece, and every piece but the last ends with one.
IsLinesOf(ls, c) ==
  /\ \A i \in 1..Len(ls) :
       /\ ls[i] # <<>>
       /\ \A j \in 1..Len(ls[i]) - 1 : ls[i][j] # 10
       /\ i < Len(ls) => ls[i][Len(ls[i])] = 10
  /\ Concat(ls) = c
\* t is l without its trailing whitespace and otherwise l: a prefix of l,
\* what was cut is whitespace, and what is left does not end with any.
IsRTrimOf(t, l) ==
  /\ Len(t) <= Len(l)
  /\ \A i \in 1..Len(t) : t[i] = l[i]
  /\ \A i \in Len(t) + 1..Len(l) : l[i] \in Whitespace
  /\ t # <<>> => t[Len(t)] \notin Whitespace

\* The number of lines of a content: its '\n's, and one more for a last
\* line that has none.
LineCount(c) ==
  Count(c, 10) + (IF c # <<>> /\ c[Len(c)] # 10 THEN 1 ELSE 0)

\* C4: for every source that opens, the elements load_words_file has
\* yielded are the first lines of the source, in order, one per line, each
\* with its trailing whitespace (the terminator included) removed and
\* nothing else changed; a full consumption yields every line, a blank line
\* as an empty word.
C4_YieldsTrimmedLines ==
  valid_words.file.exists =>
    LET c == valid_words.file.content
        ls == SplitLines(c)
    IN /\ IsLinesOf(ls, c) /\ Len(ls) = LineCount(c)
       /\ Len(out) = valid_words.pos /\ Len(out) <= Len(ls)
       /\ \A i \in 1..Len(out) :
            out[i].tag = "str" /\ IsRTrimOf(out[i].val, ls[i])
       /\ valid_words.state = "done" => Len(out) = LineCount(c)

\* "\n a\n" read to the end: the blank line is yielded as the empty word,
\* the leading space of the second line is kept.
C4_Witness ==
  /\ valid_words.state = "done"
  /\ valid_words.file.content = <<10, 32, 97, 10>>
  /\ out = <<PyStr(<<>>), PyStr(<<32, 97>>)>>

\* ---- C5
\* C5: on a source that cannot be opened the call of load_words_file fails
\* nothing and hands back a generator; the IOError is raised by the first
\* request for an element, and no element is produced.  On an empty source
\* the first request ends the sequence: no element, no error.
C5_OpenFailsAtFirstNext ==
  /\ ~valid_words.file.exists =>
       /\ valid_words.state \in {"nocall", "created", "raised", "closed"}
       /\ valid_words.state \in {"nocall", "created", "closed"}
            => (valid_words.exc = "none" /\ log = <<>>)
       /\ valid_words.state = "raised"
            => (valid_words.exc = "IOError"
                /\ log = <<Event("next", 0), Event("raise", 0)>>)
       /\ out = <<>> /\ valid_words.handle = "unopened"
  /\ (valid_words.file.exists /\ valid_words.file.content = <<>>) =>
       /\ out = <<>> /\ valid_words.exc = "none"
       /\ valid_words.state \in {"nocall", "created", "done", "closed"}
       /\ log # <<>> => (valid_words.state = "done"
                         /\ log = <<Event("next", 0), Event("stop", 0)>>)

C5_Witness ==
  /\ ~valid_words.file.exists
  /\ valid_words.state = "raised" /\ valid_words.exc = "IOError"
  /\ Len(log) = 2

\* The empty source, consumed.
C5_WitnessEmpty ==
  /\ valid_words.file.exists /\ valid_words.file.content = <<>>
  /\ valid_words.state = "done"

\* ---- C6
\* C6: for every word w, sort_word(w) has the length and the multiset of
\* characters of w, in non-decreasing codepoint order; sort_word of that
\* result is the result again; and two words have equal sort_word results
\* exactly when they have the same multiset of characters.
C6_SortWordCanonical ==
  /\ (x.tag = "str" /\ sx # Pending) =>
       /\ sx.kind = "return" /\ sx.value.tag = "str"
       /\ Len(sx.value.val) = Len(x.val)
       /\ SameMultiset(sx.value.val, x.val)
       /\ Ascending(sx.value.val)
       /\ ssx # Pending => ssx = sx
  /\ (x.tag = "str" /\ y.tag = "str" /\ sx # Pending /\ sy # Pending) =>
       ((sx.value = sy.value) <=> SameMultiset(x.val, y.val))

\* 'baa' and 'aba': a repeated character, two orders, one canonical form.
C6_Witness ==
  /\ x = PyStr(<<98, 97, 97>>) /\ y = PyStr(<<97, 98, 97>>)
  /\ sx = Return(PyStr(<<97, 97, 98>>)) /\ sy = sx /\ ssx = sx

\* ---- C7
\* C7: for every present word w, get_permutations(w) is the set of all
\* distinct orderings of the characters of w: its members are exactly the
\* sequences with the multiset of w (w and sort_word(w) among them), and
\* there are n!/(m1!*...*mk!) of them for a word of length n whose
\* characters occur m1..mk times.
C7_AllDistinctOrderings ==
  (x.tag = "str" /\ px # Pending) =>
    LET w == x.val
        n == Len(w)
        mult == [c \in Chars(w) |-> Factorial(Count(w, c))]
    IN /\ px.kind = "return" /\ px.value.tag = "set"
       /\ px.value.val = {s \in [1..n -> Chars(w)] : SameMultiset(s, w)}
       /\ w \in px.value.val
       /\ sx.kind = "return" => sx.value.val \in px.value.val
       /\ Cardinality(px.value.val) * Product(Chars(w), mult) = Factorial(n)

\* 'aba': 3!/(2!*1!) = 3 orderings.
C7_Witness ==
  /\ x = PyStr(<<97, 98, 97>>) /\ px.kind = "return" /\ sx.kind = "return"
  /\ Cardinality(px.value.val) = 3

\* ---- C8
\* C8: sort_word(None) returns None; sort_word of a present value that is
\* not a str (the int 1234) raises TypeError and returns nothing; sort_word
\* of a str, the empty one included, returns a str.
C8_SortWordOutcomes ==
  sx # Pending =>
    /\ IsNone(x) => sx = Return(None)
    /\ x.tag = "int" => (sx.kind = "raise" /\ sx.exc = "TypeError")
    /\ x.tag = "str" => (sx.kind = "return" /\ sx.value.tag = "str")
    /\ sx.kind = "raise" => x.tag \notin {"None", "str"}
    /\ sx.kind = "return" => x.tag \in {"None", "str"}

C8_Witness ==
  /\ x = PyInt(1234) /\ sx = Raise("TypeError")
  /\ y = PyStr(<<>>) /\ sy = Return(PyStr(<<>>))

\* ---- C9
\* A candidate that passes the filter: present, not empty, as long as the
\* target.
Survives(w) == ~IsNone(w) /\ w.val # <<>> /\ Len(w.val) = Len(word.val)
\* The candidates taken so far that pass the filter, as positions.
SurvivorsTaken == {i \in 1..anagrams.pos : Survives(Candidates[i])}

MatchingLines ==
  {i \in 1..Len(Candidates) :
     Candidates[i].val # <<>> /\ IsAnagramOf(Candidates[i], word)}
\* The number of the k-th matching line.
KthMatch(k) ==
  CHOOSE i \in MatchingLines :
    Cardinality({m \in MatchingLines : m <= i}) = k

\* C10, in a state: main's pipeline reads a line only inside a request of
\* the consumer; the lines read are exactly the candidates the matcher
\* took; every matching line read has been delivered; and when the k-th
\* anagram has just been delivered the lines read are the shortest prefix
\* of the source that holds k matching lines.
C10_State ==
  (valid_words.tag = "generator" /\ ~IsNone(word)) =>
    /\ Cardinality(EventsOf("read")) = valid_words.pos
    /\ valid_words.pos = anagrams.pos
    /\ \A j \in EventsOf("read") :
         \E r \in EventsOf("next") :
           /\ r < j
           /\ \A e \in r + 1..j - 1 : log[e].ev \notin {"yield", "stop", "raise"}
    /\ Cardinality({m \in MatchingLines : m <= valid_words.pos}) = Len(out)
    /\ anagrams.state = "suspended" =>
         /\ Len(out) >= 1 /\ Len(out) <= Cardinality(MatchingLines)
         /\ valid_words.pos = KthMatch(Len(out))
         /\ out[Len(out)] = Candidates[valid_words.pos]

\* C10, in a step: a step that reads a line is a request of the consumer
\* (one more "next" in the log) made of a live generator, and delivers at
\* most one element; so with no request no line is read.
C10_Step ==
  (valid_words.tag = "generator" /\ valid_words'.pos # valid_words.pos) =>
    /\ anagrams.state \in {"created", "suspended"}
    /\ valid_words'.pos > valid_words.pos
    /\ Len(log') > Len(log)
    /\ log'[Len(log) + 1].ev = "next"
    /\ Cardinality({j \in 1..Len(log') : log'[j].ev = "next"})
         = Cardinality(EventsOf("next")) + 1
    /\ Len(out') <= Len(out) + 1

====
